---- MODULE Spec2Model ----
(***************************************************************************)
(* Order tracking view of the E-Cater front end (OrderTracking component). *)
(* The view holds a tracking result and a loading flag; a submitted form   *)
(* is validated by the zod schema, then onSubmit arms a 1500 ms timer      *)
(* whose callback looks the order up in the static table                   *)
(* mockOrderStatuses and emits a toast.                                    *)
(***************************************************************************)
EXTENDS Integers, Sequences, FiniteSets, TLC

VARIABLES
  trackingResult,  \* useState: the order record on display, or NULL
  loading,         \* useState: a lookup is in progress
  timers,          \* pending setTimeout callbacks, each with its form values
  toasts,          \* notifications emitted so far, oldest first
  formErrors,      \* fields the resolver rejected on the last submit
  resolved,        \* history: form values of the last callback that ran
  statusArg,       \* argument of the last getProgressPercentage call
  progress,        \* value handed to the Progress bar, NotRendered if none
  orderTable,      \* the module-level object mockOrderStatuses
  card,            \* the result card as rendered, NULL while there is none
  auth,            \* App: what the auth provider knows of the user
  path,            \* App: segments of the current location
  page,            \* App: elements rendered for the matched route
  redirected,      \* App: a redirect to the sign-in page has been issued
  isUploading,     \* VendorRegistration useState: a logo upload is running
  vendorTimers,    \* VendorRegistration: pending setTimeout callbacks
  vendorErrors,    \* VendorRegistration: fields the resolver rejected
  mounted,         \* VendorRegistration is mounted
  navigations      \* VendorRegistration: calls of navigate so far

routeVars == <<auth, path, page, redirected>>

vendorVars == <<isUploading, vendorTimers, vendorErrors, mounted, navigations>>

vars == <<trackingResult, loading, timers, toasts, formErrors, resolved,
          statusArg, progress, orderTable, card, routeVars, vendorVars>>

(* Number of lookups a behaviour may start. *)
MaxLookups == 3

(* Number of uploads and registrations a behaviour may start. *)
MaxVendorOps == 4

--------------------------------------------------------------------------
(* JavaScript values that are not table records. *)
NULL == [null |-> TRUE]

UNDEFINED == [undefined |-> TRUE]

(* Character helpers over strings. *)
Char(s, i) == SubSeq(s, i, i)

Digits == {"0", "1", "2", "3", "4", "5", "6", "7", "8", "9"}

LowerLetters == {"a", "b", "c", "d", "e", "f", "g", "h", "i", "j", "k", "l", "m",
                 "n", "o", "p", "q", "r", "s", "t", "u", "v", "w", "x", "y", "z"}

UpperLetters == {"A", "B", "C", "D", "E", "F", "G", "H", "I", "J", "K", "L", "M",
                 "N", "O", "P", "Q", "R", "S", "T", "U", "V", "W", "X", "Y", "Z"}

AlphaNum == Digits \cup LowerLetters \cup UpperLetters

Last(seq) == seq[Len(seq)]

(* One character in lower case (String.prototype.toLowerCase on ASCII). *)
LowerChar(c) ==
  LET upper == "ABCDEFGHIJKLMNOPQRSTUVWXYZ"
      lower == "abcdefghijklmnopqrstuvwxyz"
  IN IF c \in UpperLetters
     THEN Char(lower, CHOOSE i \in 1..26 : Char(upper, i) = c)
     ELSE c

RECURSIVE ToLower(_)
ToLower(s) ==
  IF Len(s) = 0 THEN ""
  ELSE LowerChar(Char(s, 1)) \o ToLower(SubSeq(s, 2, Len(s)))

(* a occurs in b as a contiguous run of characters (a prefix included). *)
IsSubstring(a, b) ==
  \E i \in 1..(Len(b) - Len(a) + 1) : SubSeq(b, i, i + Len(a) - 1) = a

--------------------------------------------------------------------------
(* Mutant: the in-transit event is recorded before the preparing event. *)
trackingHistory123456_swapped ==
  <<[status |-> "order-placed", timestamp |-> "2023-11-15T10:30:00",
     location |-> "Vendor Facility"],
    [status |-> "in-transit", timestamp |-> "2023-11-15T11:15:00",
     location |-> "En Route to Destination"],
    [status |-> "preparing", timestamp |-> "2023-11-15T13:00:00",
     location |-> "Vendor Kitchen"],
    [status |-> "in-transit", timestamp |-> "2023-11-15T13:00:00",
     location |-> "En Route to Destination"]>>

(* trackingHistory of order ORD123456 *)
trackingHistory123456 ==
  <<[status |-> "order-placed", timestamp |-> "2023-11-15T10:30:00",
     location |-> "Vendor Facility"],
    [status |-> "preparing", timestamp |-> "2023-11-15T11:15:00",
     location |-> "Vendor Kitchen"],
    [status |-> "in-transit", timestamp |-> "2023-11-15T13:00:00",
     location |-> "En Route to Destination"]>>

(* Mutant: the delivered event is missing from the history. *)
trackingHistory789012_stale ==
  <<[status |-> "order-placed", timestamp |-> "2023-11-14T09:45:00",
     location |-> "Vendor Facility"],
    [status |-> "preparing", timestamp |-> "2023-11-14T10:15:00",
     location |-> "Vendor Kitchen"],
    [status |-> "in-transit", timestamp |-> "2023-11-14T11:30:00",
     location |-> "En Route to Destination"]>>

(* Mutant: the history goes from preparing straight to delivered. *)
trackingHistory789012_skip ==
  <<[status |-> "order-placed", timestamp |-> "2023-11-14T09:45:00",
     location |-> "Vendor Facility"],
    [status |-> "preparing", timestamp |-> "2023-11-14T10:15:00",
     location |-> "Vendor Kitchen"],
    [status |-> "delivered", timestamp |-> "2023-11-14T12:40:00",
     location |-> "Destination"]>>

(* trackingHistory of order ORD789012 *)
trackingHistory789012 ==
  <<[status |-> "order-placed", timestamp |-> "2023-11-14T09:45:00",
     location |-> "Vendor Facility"],
    [status |-> "preparing", timestamp |-> "2023-11-14T10:15:00",
     location |-> "Vendor Kitchen"],
    [status |-> "in-transit", timestamp |-> "2023-11-14T11:30:00",
     location |-> "En Route to Destination"],
    [status |-> "delivered", timestamp |-> "2023-11-14T12:40:00",
     location |-> "Destination"]>>

(* The static order table.  Latitude and longitude are kept in units of    *)
(* 1/10000 degree.                                                         *)
mockOrderStatuses ==
  [k \in {"ORD123456", "ORD789012"} |->
     IF k = "ORD123456"
     THEN [status |-> "in-transit",
           customer |-> "Rahul Sharma",
           email |-> "test@example.com",
           orderDate |-> "2023-11-15T10:30:00",
           items |-> <<"Paneer Tikka (15 pcs)", "Butter Chicken (2kg)",
                       "Vegetable Biryani (30 servings)">>,
           currentLocation |-> [lat |-> 129716, lng |-> 775946,
                                address |-> "Bannerghatta Road, Near JP Nagar"],
           estimatedDelivery |-> "2023-11-15T14:30:00",
           trackingHistory |-> trackingHistory123456]
     ELSE [status |-> "delivered",
           customer |-> "Ananya Patel",
           email |-> "test@example.com",
           orderDate |-> "2023-11-14T09:45:00",
           items |-> <<"Veg Starter Combo (25 persons)",
                       "Main Course Buffet (25 persons)">>,
           currentLocation |-> [lat |-> 129352, lng |-> 776245,
                                address |-> "Koramangala, 5th Block"],
           estimatedDelivery |-> "2023-11-14T12:45:00",
           trackingHistory |-> trackingHistory789012]]

(* Property names every object literal inherits from Object.prototype; a   *)
(* bracket lookup with one of them yields the inherited member.            *)
ObjectPrototypeKeys == {"constructor", "toString", "valueOf", "hasOwnProperty",
                        "isPrototypeOf", "propertyIsEnumerable",
                        "toLocaleString", "__proto__"}

(* Mutant: an unknown id falls back to the first order of the table. *)
LookupOrder_fallback(orderId) ==
  IF orderId \in DOMAIN orderTable THEN orderTable[orderId]
  ELSE orderTable["ORD123456"]

(* Mutant: the id is looked up without regard to letter case. *)
LookupOrder_ci(orderId) ==
  IF \E k \in DOMAIN orderTable : ToLower(k) = ToLower(orderId)
  THEN orderTable[CHOOSE k \in DOMAIN orderTable :
                           ToLower(k) = ToLower(orderId)]
  ELSE UNDEFINED

(* mockOrderStatuses[values.orderId] *)
LookupOrder(orderId) ==
  IF orderId \in DOMAIN orderTable THEN orderTable[orderId]
  ELSE IF orderId \in ObjectPrototypeKeys THEN [inherited |-> orderId]
  ELSE UNDEFINED

(* Mutant: the email of the record is not compared. *)
OrderMatches_idOnly(orderData, email) ==
  /\ orderData # UNDEFINED
  /\ "email" \in DOMAIN orderData

(* orderData && orderData.email === values.email *)
OrderMatches(orderData, email) ==
  /\ orderData # UNDEFINED
  /\ "email" \in DOMAIN orderData
  /\ orderData.email = email

--------------------------------------------------------------------------
(* Mutant: any non-empty order id passes. *)
OrderIdValid_nonEmpty(orderId) == Len(orderId) >= 1

(* trackingFormSchema.orderId : z.string().min(3) *)
OrderIdValid(orderId) == Len(orderId) >= 3

(* trackingFormSchema.email : z.string().email().  zod accepts, without    *)
(* regard to letter case, a local part of letters, digits and _ ' + - .    *)
(* that does not start with a dot and ends in a letter, digit, _ + or -,   *)
(* one @, one or more labels of letters, digits and hyphens that start     *)
(* with a letter or digit and are each followed by a dot, and a final      *)
(* label of two or more letters; the address has no two adjacent dots.     *)
EmailValid(email) ==
  LET n == Len(email)
      ats == {i \in 1..n : Char(email, i) = "@"}
  IN /\ Cardinality(ats) = 1
     /\ LET at == CHOOSE i \in ats : TRUE
            dots == {i \in (at + 1)..n : Char(email, i) = "."}
        IN /\ at >= 2
           /\ Char(email, 1) # "."
           /\ \A i \in 1..(n - 1) :
                ~(Char(email, i) = "." /\ Char(email, i + 1) = ".")
           /\ \A i \in 1..(at - 1) :
                Char(email, i) \in AlphaNum \cup {"_", "'", "+", "-", "."}
           /\ Char(email, at - 1) \in AlphaNum \cup {"_", "+", "-"}
           /\ dots # {}
           /\ LET lastDot == CHOOSE i \in dots : \A j \in dots : j <= i
              IN /\ n - lastDot >= 2
                 /\ \A i \in (lastDot + 1)..n :
                      Char(email, i) \in LowerLetters \cup UpperLetters
                 /\ \A i \in (at + 1)..lastDot :
                      /\ Char(email, i) \in AlphaNum \cup {"-", "."}
                      /\ (i = at + 1 \/ Char(email, i - 1) = ".")
                           => Char(email, i) \in AlphaNum

(* Fields rejected by the zod resolver. *)
SchemaErrors(orderId, email) ==
  (IF OrderIdValid(orderId) THEN {} ELSE {"orderId"})
    \cup (IF EmailValid(email) THEN {} ELSE {"email"})

--------------------------------------------------------------------------
(* Mutant: an unknown status falls through to the first milestone. *)
getProgressPercentage_fallthrough(status) ==
  CASE status = "order-placed" -> 25
    [] status = "preparing" -> 50
    [] status = "in-transit" -> 75
    [] status = "delivered" -> 100
    [] OTHER -> 25

(* Mutant: every milestone is one step behind. *)
getProgressPercentage_shifted(status) ==
  CASE status = "order-placed" -> 0
    [] status = "preparing" -> 25
    [] status = "in-transit" -> 50
    [] status = "delivered" -> 75
    [] OTHER -> 0

(* Mutant: the cases of preparing and in-transit are exchanged. *)
getProgressPercentage_swapped(status) ==
  CASE status = "order-placed" -> 25
    [] status = "preparing" -> 75
    [] status = "in-transit" -> 50
    [] status = "delivered" -> 100
    [] OTHER -> 0

(* getProgressPercentage *)
getProgressPercentage(status) ==
  CASE status = "order-placed" -> 25
    [] status = "preparing" -> 50
    [] status = "in-transit" -> 75
    [] status = "delivered" -> 100
    [] OTHER -> 0

(* Text of the status badge of the result card. *)
StatusLabel(status) ==
  CASE status = "order-placed" -> "Order Placed"
    [] status = "preparing" -> "Preparing"
    [] status = "in-transit" -> "In Transit"
    [] status = "delivered" -> "Delivered"
    [] OTHER -> ""

(* Array.prototype.find over the tracking history: the first entry with    *)
(* the status, UNDEFINED if there is none.                                 *)
FindHistory(history, status) ==
  IF \E i \in 1..Len(history) : history[i].status = status
  THEN history[CHOOSE i \in 1..Len(history) :
                 /\ history[i].status = status
                 /\ \A j \in 1..(i - 1) : history[j].status # status]
  ELSE UNDEFINED

(* Mutant: the location block is shown whatever the status. *)
RenderCard_locationAlways(result) ==
  IF result = NULL THEN NULL
  ELSE [orderNumber |-> IF "orderId" \in DOMAIN result THEN result.orderId
                        ELSE "ORD123456",
        orderDate |-> result.orderDate,
        statusLabel |-> StatusLabel(result.status),
        progress |-> getProgressPercentage(result.status),
        indicators |-> [k \in 1..4 |->
                          getProgressPercentage(result.status) >= 25 * k],
        sections |-> {"location", "estimatedDelivery", "map"}
                       \cup (IF result.status = "delivered"
                             THEN {"deliveredOn"} ELSE {}),
        location |-> result.currentLocation,
        delivered |-> IF result.status = "delivered"
                      THEN FindHistory(result.trackingHistory, "delivered")
                      ELSE NULL,
        items |-> result.items,
        history |-> result.trackingHistory]

(* Mutant: a milestone indicator turns green only above its threshold. *)
RenderCard_strict(result) ==
  IF result = NULL THEN NULL
  ELSE [orderNumber |-> IF "orderId" \in DOMAIN result THEN result.orderId
                        ELSE "ORD123456",
        orderDate |-> result.orderDate,
        statusLabel |-> StatusLabel(result.status),
        progress |-> getProgressPercentage(result.status),
        indicators |-> [k \in 1..4 |->
                          getProgressPercentage(result.status) > 25 * k],
        sections |-> (IF result.status = "in-transit"
                      THEN {"location", "estimatedDelivery", "map"} ELSE {})
                       \cup (IF result.status = "delivered"
                             THEN {"deliveredOn"} ELSE {}),
        location |-> IF result.status = "in-transit"
                     THEN result.currentLocation ELSE NULL,
        delivered |-> IF result.status = "delivered"
                      THEN FindHistory(result.trackingHistory, "delivered")
                      ELSE NULL,
        items |-> result.items,
        history |-> result.trackingHistory]

(* The result card, rendered only for a non-null trackingResult: the order *)
(* number of the header, the status badge, the progress bar with its four  *)
(* milestone indicators, the blocks shown for the status, the items and    *)
(* the history.  Dates are kept as the strings handed to formatDate.       *)
RenderCard(result) ==
  IF result = NULL THEN NULL
  ELSE [orderNumber |-> IF "orderId" \in DOMAIN result THEN result.orderId
                        ELSE "ORD123456",
        orderDate |-> result.orderDate,
        statusLabel |-> StatusLabel(result.status),
        progress |-> getProgressPercentage(result.status),
        indicators |-> [k \in 1..4 |->
                          getProgressPercentage(result.status) >= 25 * k],
        sections |-> (IF result.status = "in-transit"
                      THEN {"location", "estimatedDelivery", "map"} ELSE {})
                       \cup (IF result.status = "delivered"
                             THEN {"deliveredOn"} ELSE {}),
        location |-> IF result.status = "in-transit"
                     THEN result.currentLocation ELSE NULL,
        delivered |-> IF result.status = "delivered"
                      THEN FindHistory(result.trackingHistory, "delivered")
                      ELSE NULL,
        items |-> result.items,
        history |-> result.trackingHistory]

(* Mutant: the toast of the found branch is a copy of the not-found one. *)
OrderFoundToast_copied ==
  [title |-> "Order Not Found",
   description |-> "Displaying tracking information for your order.",
   variant |-> "destructive"]

(* Toasts emitted by the timer callback. *)
OrderFoundToast ==
  [title |-> "Order Found",
   description |-> "Displaying tracking information for your order."]

OrderNotFoundToast ==
  [title |-> "Order Not Found",
   description |-> "We couldn't find an order with the provided ID and email. Please check and try again.",
   variant |-> "destructive"]

--------------------------------------------------------------------------
(* What Clerk knows of the user: nothing until it has loaded, then signed  *)
(* in or signed out.                                                       *)
AuthStates == {"loading", "signedIn", "signedOut"}

(* The child routes of the Layout route of App, in the order declared.     *)
(* The empty pattern is the index route; protected is TRUE for an element  *)
(* wrapped in ProtectedRoute.                                              *)
Routes ==
  <<[pattern |-> <<>>, element |-> "HomePage", protected |-> FALSE],
    [pattern |-> <<"vendors">>, element |-> "VendorPage", protected |-> FALSE],
    [pattern |-> <<"vendors", ":id">>, element |-> "VendorDetails",
     protected |-> FALSE],
    [pattern |-> <<"dashboard">>, element |-> "Dashboard", protected |-> TRUE],
    [pattern |-> <<"bookings">>, element |-> "Bookings", protected |-> TRUE],
    [pattern |-> <<"bookings", ":id">>, element |-> "BookingDetails",
     protected |-> TRUE],
    [pattern |-> <<"profile">>, element |-> "Profile", protected |-> TRUE],
    [pattern |-> <<"vendor", "dashboard">>, element |-> "VendorDashboard",
     protected |-> TRUE],
    [pattern |-> <<"vendor", "menus">>, element |-> "VendorMenus",
     protected |-> TRUE],
    [pattern |-> <<"vendor", "orders">>, element |-> "VendorOrders",
     protected |-> TRUE],
    [pattern |-> <<"admin", "dashboard">>, element |-> "AdminDashboard",
     protected |-> TRUE],
    [pattern |-> <<"admin", "users">>, element |-> "AdminUsers",
     protected |-> TRUE],
    [pattern |-> <<"admin", "vendors">>, element |-> "AdminVendors",
     protected |-> TRUE]>>

(* The route with path "*". *)
SplatRoute == [pattern |-> <<"*">>, element |-> "NotFound", protected |-> FALSE]

(* A location matches a route pattern segment by segment; a segment that   *)
(* starts with a colon takes any value, the others match without regard to *)
(* letter case.                                                            *)
MatchesPattern(segments, pattern) ==
  /\ Len(segments) = Len(pattern)
  /\ \A i \in 1..Len(pattern) :
       \/ Char(pattern[i], 1) = ":"
       \/ ToLower(pattern[i]) = ToLower(segments[i])

(* The route the router picks: the declared one that matches, else "*". *)
MatchRoute(segments) ==
  IF \E i \in 1..Len(Routes) : MatchesPattern(segments, Routes[i].pattern)
  THEN Routes[CHOOSE i \in 1..Len(Routes) :
                MatchesPattern(segments, Routes[i].pattern)]
  ELSE SplatRoute

(* Mutant: the children are rendered whoever the user is. *)
ProtectedRoute_noGuard(children, authState) ==
  {children} \cup (IF authState = "signedOut" THEN {"RedirectToSignIn"} ELSE {})

(* ProtectedRoute: SignedIn renders its children for a signed-in user,     *)
(* SignedOut renders RedirectToSignIn for a signed-out one, and neither    *)
(* renders anything until the provider has loaded.                         *)
ProtectedRoute(children, authState) ==
  (IF authState = "signedIn" THEN {children} ELSE {})
    \cup (IF authState = "signedOut" THEN {"RedirectToSignIn"} ELSE {})

(* Mutant: every route element is wrapped in ProtectedRoute. *)
RenderOutlet_allProtected(segments, authState) ==
  ProtectedRoute(MatchRoute(segments).element, authState)

(* The elements rendered for a location. *)
RenderOutlet(segments, authState) ==
  LET route == MatchRoute(segments)
  IN IF route.protected THEN ProtectedRoute(route.element, authState)
     ELSE {route.element}

(* Locations a user may visit. *)
PathInputs ==
  {<<>>, <<"vendors">>, <<"Vendors">>, <<"vendors", "7">>,
   <<"vendors", "7", "menu">>, <<"dashboard">>, <<"DASHBOARD">>,
   <<"dashboard", "stats">>, <<"bookings">>, <<"bookings", "7">>,
   <<"bookings", "7", "edit">>, <<"profile">>, <<"Profile">>,
   <<"vendor">>, <<"vendor", "dashboard">>, <<"vendor", "menus">>,
   <<"vendor", "orders">>, <<"vendor", "registration">>,
   <<"admin">>, <<"admin", "dashboard">>, <<"admin", "users">>,
   <<"Admin", "Vendors">>, <<"admin", "vendors">>, <<"admin", "settings">>,
   <<"track">>, <<"sign-in">>, <<"home">>, <<"*">>, <<"vendors", "12">>,
   <<"bookings", "42">>, <<"Bookings">>, <<"admin", "users", "3">>}

(* Values a user may type into the two form fields. *)
OrderIdInputs == {"ORD123456", "ORD789012", "ORD000000", "ord123456",
                  "ORD123", "123456", "OR", "", "constructor"}

EmailInputs == {"test@example.com", "Test@example.com", "TEST@EXAMPLE.COM",
                "test@example.co", "est@example.com", "other@example.com",
                "test@example", ""}

(* Status strings getProgressPercentage is applied to. *)
StatusPrefixes == {"", "order-", "Order-", "in-", "In-", "pre", "un", " "}

StatusStems == {"placed", "preparing", "paring", "transit", "delivered",
                "Delivered", "cancelled", ""}

StatusInputs == {p \o t : p \in StatusPrefixes, t \in StatusStems}

(* Progress value while the result card is not rendered. *)
NotRendered == -1

(* The rest of the application while nothing happens in it. *)
RoutesAtRest ==
  /\ auth = "loading"
  /\ path = <<>>
  /\ page = RenderOutlet(<<>>, "loading")
  /\ redirected = FALSE

VendorAtRest ==
  /\ isUploading = FALSE
  /\ vendorTimers = <<>>
  /\ vendorErrors = {}
  /\ mounted = FALSE
  /\ navigations = 0

Init ==
  /\ trackingResult = NULL
  /\ loading = FALSE
  /\ timers = <<>>
  /\ toasts = <<>>
  /\ formErrors = {}
  /\ resolved = NULL
  /\ statusArg = ""
  /\ progress = NotRendered
  /\ orderTable = mockOrderStatuses
  /\ card = NULL
  /\ RoutesAtRest
  /\ VendorAtRest

(* Mutant: onSubmit sets loading but arms no timer. *)
onSubmit_noTimer(orderId, email) ==
  /\ ~loading
  /\ Len(toasts) + Len(timers) < MaxLookups
  /\ SchemaErrors(orderId, email) = {}
  /\ formErrors' = {}
  /\ loading' = TRUE
  /\ UNCHANGED <<trackingResult, timers, toasts, resolved, statusArg, progress,
                 orderTable, card, routeVars, vendorVars>>

(* Mutant: the submit button stays enabled while loading. *)
onSubmit_noGuard(orderId, email) ==
  /\ Len(toasts) + Len(timers) < MaxLookups
  /\ SchemaErrors(orderId, email) = {}
  /\ formErrors' = {}
  /\ loading' = TRUE
  /\ timers' = Append(timers, [orderId |-> orderId, email |-> email])
  /\ UNCHANGED <<trackingResult, toasts, resolved, statusArg, progress,
                 orderTable, card, routeVars, vendorVars>>

(* Mutant: onSubmit clears the result on display while it searches. *)
onSubmit_clears(orderId, email) ==
  /\ ~loading
  /\ Len(toasts) + Len(timers) < MaxLookups
  /\ SchemaErrors(orderId, email) = {}
  /\ formErrors' = {}
  /\ loading' = TRUE
  /\ timers' = Append(timers, [orderId |-> orderId, email |-> email])
  /\ trackingResult' = NULL
  /\ card' = NULL
  /\ statusArg' = ""
  /\ progress' = NotRendered
  /\ UNCHANGED <<toasts, resolved, orderTable, routeVars, vendorVars>>

(* form.handleSubmit(onSubmit) with values that pass the schema: onSubmit  *)
(* sets loading and arms the timer.  The submit button is rendered with   *)
(* disabled={loading}, so no submit reaches the form while loading.        *)
onSubmit(orderId, email) ==
  /\ ~loading
  /\ Len(toasts) + Len(timers) < MaxLookups
  /\ SchemaErrors(orderId, email) = {}
  /\ formErrors' = {}
  /\ loading' = TRUE
  /\ timers' = Append(timers, [orderId |-> orderId, email |-> email])
  /\ UNCHANGED <<trackingResult, toasts, resolved, statusArg, progress,
                 orderTable, card, routeVars, vendorVars>>

(* form.handleSubmit(onSubmit) with values the schema rejects: the field   *)
(* errors are recorded and onSubmit is not called.                         *)
SubmitInvalid(orderId, email) ==
  /\ ~loading
  /\ SchemaErrors(orderId, email) # {}
  /\ formErrors' = SchemaErrors(orderId, email)
  /\ UNCHANGED <<trackingResult, loading, timers, toasts, resolved, statusArg,
                 progress, orderTable, card, routeVars, vendorVars>>

(* Mutant: a failed lookup leaves the previous result on display. *)
TimerFires_keep ==
  /\ timers # <<>>
  /\ LET values == Head(timers)
         orderData == LookupOrder(values.orderId)
     IN /\ resolved' = values
        /\ IF OrderMatches(orderData, values.email)
           THEN /\ trackingResult' = orderData
                /\ toasts' = Append(toasts, OrderFoundToast)
                /\ statusArg' = orderData.status
                /\ progress' = getProgressPercentage(orderData.status)
           ELSE /\ toasts' = Append(toasts, OrderNotFoundToast)
                /\ UNCHANGED <<trackingResult, statusArg, progress>>
  /\ card' = RenderCard(trackingResult')
  /\ loading' = FALSE
  /\ timers' = Tail(timers)
  /\ UNCHANGED <<formErrors, orderTable, routeVars, vendorVars>>

(* Mutant: the callback writes the looked-up id into the record of the     *)
(* table.                                                                  *)
TimerFires_tagsRecord ==
  /\ timers # <<>>
  /\ LET values == Head(timers)
         orderData == LookupOrder(values.orderId)
     IN /\ resolved' = values
        /\ IF OrderMatches(orderData, values.email)
           THEN /\ orderTable' =
                     [orderTable EXCEPT ![values.orderId] =
                        [orderId |-> values.orderId] @@ orderData]
                /\ trackingResult' = orderTable'[values.orderId]
                /\ toasts' = Append(toasts, OrderFoundToast)
                /\ statusArg' = orderData.status
                /\ progress' = getProgressPercentage(orderData.status)
           ELSE /\ toasts' = Append(toasts, OrderNotFoundToast)
                /\ trackingResult' = NULL
                /\ statusArg' = ""
                /\ progress' = NotRendered
                /\ UNCHANGED orderTable
  /\ card' = RenderCard(trackingResult')
  /\ loading' = FALSE
  /\ timers' = Tail(timers)
  /\ UNCHANGED <<formErrors, routeVars, vendorVars>>

(* Mutant: a failed lookup is tried again with the same values. *)
TimerFires_retry ==
  /\ timers # <<>>
  /\ LET values == Head(timers)
         orderData == LookupOrder(values.orderId)
     IN /\ resolved' = values
        /\ IF OrderMatches(orderData, values.email)
           THEN /\ trackingResult' = orderData
                /\ toasts' = Append(toasts, OrderFoundToast)
                /\ statusArg' = orderData.status
                /\ progress' = getProgressPercentage(orderData.status)
                /\ loading' = FALSE
                /\ timers' = Tail(timers)
           ELSE /\ toasts' = Append(toasts, OrderNotFoundToast)
                /\ trackingResult' = NULL
                /\ statusArg' = ""
                /\ progress' = NotRendered
                /\ IF Len(toasts) + 1 < MaxLookups
                   THEN /\ loading' = TRUE
                        /\ timers' = Append(Tail(timers), values)
                   ELSE /\ loading' = FALSE
                        /\ timers' = Tail(timers)
  /\ card' = RenderCard(trackingResult')
  /\ UNCHANGED <<formErrors, orderTable, routeVars, vendorVars>>

(* The setTimeout callback of onSubmit, and the render that follows: the   *)
(* result card with its Progress bar is rendered only for a non-null       *)
(* trackingResult.                                                         *)
TimerFires ==
  /\ timers # <<>>
  /\ LET values == Head(timers)
         orderData == LookupOrder(values.orderId)
     IN /\ resolved' = values
        /\ IF OrderMatches(orderData, values.email)
           THEN /\ trackingResult' = orderData
                /\ toasts' = Append(toasts, OrderFoundToast)
                /\ statusArg' = orderData.status
                /\ progress' = getProgressPercentage(orderData.status)
           ELSE /\ toasts' = Append(toasts, OrderNotFoundToast)
                /\ trackingResult' = NULL
                /\ statusArg' = ""
                /\ progress' = NotRendered
  /\ card' = RenderCard(trackingResult')
  /\ loading' = FALSE
  /\ timers' = Tail(timers)
  /\ UNCHANGED <<formErrors, orderTable, routeVars, vendorVars>>

Next ==
  \/ \E orderId \in OrderIdInputs, email \in EmailInputs : onSubmit(orderId, email)
  \/ \E orderId \in OrderIdInputs, email \in EmailInputs : SubmitInvalid(orderId, email)
  \/ TimerFires

Spec == Init /\ [][Next]_vars

(* The timer of onSubmit is never cleared, so its callback runs once it is *)
(* due.                                                                    *)
FairSpec == Spec /\ WF_vars(TimerFires)

--------------------------------------------------------------------------
(* getProgressPercentage on its own: any string may be passed as status.   *)
InitProgress ==
  /\ trackingResult = NULL
  /\ loading = FALSE
  /\ timers = <<>>
  /\ toasts = <<>>
  /\ formErrors = {}
  /\ resolved = NULL
  /\ statusArg \in StatusInputs
  /\ progress = NotRendered
  /\ orderTable = mockOrderStatuses
  /\ card = NULL
  /\ RoutesAtRest
  /\ VendorAtRest

CallProgress ==
  /\ progress = NotRendered
  /\ progress' = getProgressPercentage(statusArg)
  /\ UNCHANGED <<trackingResult, loading, timers, toasts, formErrors,
                 resolved, statusArg, orderTable, card, routeVars, vendorVars>>

NextProgress == CallProgress

SpecProgress == InitProgress /\ [][NextProgress]_vars

--------------------------------------------------------------------------
(* Routing of App: the location changes, the auth provider loads, the user *)
(* signs in or out; every step re-renders the matched route.  Rendering    *)
(* RedirectToSignIn issues the redirect.                                   *)
TrackerAtRest ==
  /\ trackingResult = NULL
  /\ loading = FALSE
  /\ timers = <<>>
  /\ toasts = <<>>
  /\ formErrors = {}
  /\ resolved = NULL
  /\ statusArg = ""
  /\ progress = NotRendered
  /\ orderTable = mockOrderStatuses
  /\ card = NULL

trackerVars == <<trackingResult, loading, timers, toasts, formErrors, resolved,
                 statusArg, progress, orderTable, card>>

InitRoutes ==
  /\ TrackerAtRest
  /\ VendorAtRest
  /\ auth = "loading"
  /\ path \in PathInputs
  /\ page = RenderOutlet(path, "loading")
  /\ redirected = FALSE

(* The render of App for a location and an auth state. *)
Render(segments, authState) ==
  /\ path' = segments
  /\ auth' = authState
  /\ page' = RenderOutlet(segments, authState)
  /\ redirected' = (redirected \/ "RedirectToSignIn" \in page')
  /\ UNCHANGED <<trackerVars, vendorVars>>

Navigate(segments) ==
  /\ segments # path
  /\ Render(segments, auth)

ClerkLoaded(authState) ==
  /\ auth = "loading"
  /\ authState \in {"signedIn", "signedOut"}
  /\ Render(path, authState)

SignIn ==
  /\ auth = "signedOut"
  /\ path' = path
  /\ auth' = "signedIn"
  /\ page' = RenderOutlet(path, "signedIn")
  /\ redirected' = FALSE
  /\ UNCHANGED <<trackerVars, vendorVars>>

SignOut ==
  /\ auth = "signedIn"
  /\ Render(path, "signedOut")

NextRoutes ==
  \/ \E segments \in PathInputs : Navigate(segments)
  \/ \E authState \in AuthStates : ClerkLoaded(authState)
  \/ SignIn
  \/ SignOut

SpecRoutes == InitRoutes /\ [][NextRoutes]_vars

--------------------------------------------------------------------------
(* VendorRegistration: the registration form and the logo upload. *)

(* formSchema: the fields whose value the schema rejects. *)
VendorSchemaErrors(values) ==
  (IF Len(values.businessName) >= 2 THEN {} ELSE {"businessName"})
    \cup (IF Len(values.ownerName) >= 2 THEN {} ELSE {"ownerName"})
    \cup (IF EmailValid(values.email) THEN {} ELSE {"email"})
    \cup (IF Len(values.phone) >= 10 THEN {} ELSE {"phone"})
    \cup (IF Len(values.address) >= 5 THEN {} ELSE {"address"})
    \cup (IF Len(values.city) >= 2 THEN {} ELSE {"city"})
    \cup (IF Len(values.cuisineType) >= 1 THEN {} ELSE {"cuisineType"})
    \cup (IF Len(values.description) >= 10 THEN {} ELSE {"description"})
    \cup (IF Len(values.fssaiLicense) >= 5 THEN {} ELSE {"fssaiLicense"})

(* defaultValues of the form. *)
EmptyVendorForm ==
  [businessName |-> "", ownerName |-> "", email |-> "", phone |-> "",
   address |-> "", city |-> "", cuisineType |-> "", description |-> "",
   gstNumber |-> "", fssaiLicense |-> ""]

(* Forms a vendor may submit. *)
FilledVendorForm ==
  [businessName |-> "Spice Route", ownerName |-> "Asha Rao",
   email |-> "asha@example.com", phone |-> "9876543210",
   address |-> "12 MG Road", city |-> "Pune", cuisineType |-> "north-indian",
   description |-> "Traditional wedding catering", gstNumber |-> "",
   fssaiLicense |-> "12345678901234"]

VendorForms ==
  {FilledVendorForm,
   [FilledVendorForm EXCEPT !.gstNumber = "27AAPFU0939F1ZV"],
   [FilledVendorForm EXCEPT !.businessName = "S"],
   [FilledVendorForm EXCEPT !.email = "asha@example"],
   [FilledVendorForm EXCEPT !.phone = "98765"],
   [FilledVendorForm EXCEPT !.cuisineType = ""],
   [FilledVendorForm EXCEPT !.fssaiLicense = "1234", !.description = "Catering"],
   EmptyVendorForm}

RegistrationSubmittedToast ==
  [title |-> "Registration Submitted",
   description |-> "Your vendor registration request has been submitted for review."]

LogoUploadedToast ==
  [title |-> "Logo Uploaded",
   description |-> "Your business logo has been uploaded successfully."]

(* The location VendorRegistration is shown at; App declares no route for  *)
(* it, the component is mounted by its host.                               *)
RegistrationPath == <<"vendor", "registration">>

(* Timers of the component, in the order they fall due. *)
UploadTimer == [kind |-> "upload"]

NavigateTimer(values) == [kind |-> "navigate", values |-> values]

PendingUploads == {i \in 1..Len(vendorTimers) : vendorTimers[i].kind = "upload"}

PendingNavigations ==
  {i \in 1..Len(vendorTimers) : vendorTimers[i].kind = "navigate"}

(* seq with x put at position i *)
InsertAt(seq, i, x) ==
  SubSeq(seq, 1, i - 1) \o <<x>> \o SubSeq(seq, i, Len(seq))

VendorOps == Len(toasts) + Len(vendorTimers)

InitVendor ==
  /\ TrackerAtRest
  /\ auth \in {"signedIn", "signedOut"}
  /\ path = RegistrationPath
  /\ page = {"VendorRegistration"}
  /\ redirected = FALSE
  /\ isUploading = FALSE
  /\ vendorTimers = <<>>
  /\ vendorErrors = {}
  /\ mounted = TRUE
  /\ navigations = 0

(* Mutant: the upload button is not disabled while an upload runs. *)
handleLogoUpload_noGuard ==
  /\ mounted
  /\ VendorOps + 1 <= MaxVendorOps
  /\ isUploading' = TRUE
  /\ \E i \in 1..(Len(vendorTimers) + 1) :
       vendorTimers' = InsertAt(vendorTimers, i, UploadTimer)
  /\ UNCHANGED <<trackerVars, routeVars, vendorErrors, mounted, navigations>>

(* handleLogoUpload, reached through the upload button, which is disabled  *)
(* while isUploading.  The 1500 ms timer may fall due before or after a    *)
(* 2000 ms navigation timer armed earlier.                                 *)
handleLogoUpload ==
  /\ mounted
  /\ ~isUploading
  /\ VendorOps + 1 <= MaxVendorOps
  /\ isUploading' = TRUE
  /\ \E i \in 1..(Len(vendorTimers) + 1) :
       vendorTimers' = InsertAt(vendorTimers, i, UploadTimer)
  /\ UNCHANGED <<trackerVars, routeVars, vendorErrors, mounted, navigations>>

(* The setTimeout callback of handleLogoUpload. *)
UploadTimerFires ==
  /\ vendorTimers # <<>>
  /\ Head(vendorTimers).kind = "upload"
  /\ vendorTimers' = Tail(vendorTimers)
  /\ isUploading' = FALSE
  /\ toasts' = Append(toasts, LogoUploadedToast)
  /\ UNCHANGED <<trackingResult, loading, timers, formErrors, resolved,
                 statusArg, progress, orderTable, card, routeVars,
                 vendorErrors, mounted, navigations>>

(* Mutant: the registration navigates from two timers. *)
VendorSubmit_twice(values) ==
  /\ mounted
  /\ VendorOps + 2 <= MaxVendorOps
  /\ VendorSchemaErrors(values) = {}
  /\ vendorErrors' = {}
  /\ toasts' = Append(toasts, RegistrationSubmittedToast)
  /\ vendorTimers' = vendorTimers \o <<NavigateTimer(values), NavigateTimer(values)>>
  /\ UNCHANGED <<trackingResult, loading, timers, formErrors, resolved,
                 statusArg, progress, orderTable, card, routeVars,
                 isUploading, mounted, navigations>>

(* form.handleSubmit(onSubmit) with values that pass formSchema: onSubmit  *)
(* emits the toast and arms the navigation timer.  The submit button is    *)
(* never disabled.                                                         *)
VendorSubmit(values) ==
  /\ mounted
  /\ VendorOps + 2 <= MaxVendorOps
  /\ VendorSchemaErrors(values) = {}
  /\ vendorErrors' = {}
  /\ toasts' = Append(toasts, RegistrationSubmittedToast)
  /\ vendorTimers' = Append(vendorTimers, NavigateTimer(values))
  /\ UNCHANGED <<trackingResult, loading, timers, formErrors, resolved,
                 statusArg, progress, orderTable, card, routeVars,
                 isUploading, mounted, navigations>>

(* form.handleSubmit(onSubmit) with values formSchema rejects. *)
VendorSubmitInvalid(values) ==
  /\ mounted
  /\ VendorSchemaErrors(values) # {}
  /\ vendorErrors' = VendorSchemaErrors(values)
  /\ UNCHANGED <<trackerVars, routeVars, isUploading, vendorTimers, mounted,
                 navigations>>

(* The setTimeout callback of onSubmit: navigate("/vendor/dashboard").     *)
(* The location changes, App renders the matched route and the component   *)
(* is unmounted; its state is discarded.                                   *)
NavigateTimerFires ==
  /\ vendorTimers # <<>>
  /\ Head(vendorTimers).kind = "navigate"
  /\ vendorTimers' = Tail(vendorTimers)
  /\ navigations' = navigations + 1
  /\ path' = <<"vendor", "dashboard">>
  /\ page' = RenderOutlet(<<"vendor", "dashboard">>, auth)
  /\ redirected' = (redirected \/ "RedirectToSignIn" \in page')
  /\ mounted' = FALSE
  /\ isUploading' = FALSE
  /\ vendorErrors' = {}
  /\ UNCHANGED <<trackerVars, auth>>

NextVendor ==
  \/ handleLogoUpload
  \/ UploadTimerFires
  \/ \E values \in VendorForms : VendorSubmit(values)
  \/ \E values \in VendorForms : VendorSubmitInvalid(values)
  \/ NavigateTimerFires

SpecVendor == InitVendor /\ [][NextVendor]_vars

(* Neither timer is ever cleared, so each callback runs once it is due. *)
FairSpecVendor ==
  SpecVendor /\ WF_vars(UploadTimerFires) /\ WF_vars(NavigateTimerFires)

--------------------------------------------------------------------------
(* The lifecycle order of the status values, as the view lists them. *)
Lifecycle == <<"order-placed", "preparing", "in-transit", "delivered">>

(* Position of a status in the lifecycle, 0 for a string that is not one. *)
LifecycleRank(s) ==
  IF \E i \in 1..Len(Lifecycle) : Lifecycle[i] = s
  THEN CHOOSE i \in 1..Len(Lifecycle) : Lifecycle[i] = s
  ELSE 0

(* The records a lookup can put on display: those of the table, and the    *)
(* one on display now.                                                     *)
OrderRecords ==
  {mockOrderStatuses[k] : k \in DOMAIN mockOrderStatuses}
    \cup (IF trackingResult = NULL THEN {} ELSE {trackingResult})

(* The lookup that resolved last had an id of the table and that record's  *)
(* email.                                                                  *)
ResolvedMatches ==
  /\ resolved.orderId \in DOMAIN mockOrderStatuses
  /\ mockOrderStatuses[resolved.orderId].email = resolved.email

(* a differs from b, and only in letter case or by being a part of b. *)
PartialOf(a, b) ==
  /\ a # b
  /\ (ToLower(a) = ToLower(b) \/ IsSubstring(a, b))

(* C1: getProgressPercentage returns 25 for the placed status (spelled     *)
(* "order-placed"), 50 for preparing, 75 for in-transit, 100 for           *)
(* delivered, and 0 for every other string.                                *)
C1_ProgressMapping ==
  progress # NotRendered =>
    /\ statusArg = "order-placed" => progress = 25
    /\ statusArg = "preparing" => progress = 50
    /\ statusArg = "in-transit" => progress = 75
    /\ statusArg = "delivered" => progress = 100
    /\ statusArg \notin {"order-placed", "preparing", "in-transit", "delivered"}
         => progress = 0

C1_Witness == statusArg = "placed" /\ progress = 0

(* C2: a resolved lookup stores an order record as the tracking result     *)
(* exactly when its orderId is a key of the order table and its email      *)
(* equals that record's email, and the record stored is the table entry    *)
(* of that orderId.                                                        *)
C2_LookupIffMatch ==
  resolved # NULL =>
    /\ (trackingResult # NULL) <=> ResolvedMatches
    /\ trackingResult # NULL => trackingResult = mockOrderStatuses[resolved.orderId]

C2_Witness ==
  /\ resolved # NULL
  /\ resolved.orderId = "ORD789012"
  /\ trackingResult = mockOrderStatuses["ORD789012"]

(* C3: a lookup that resolves with a mismatch sets the tracking result to  *)
(* null, clearing an order displayed before, and emits the destructive     *)
(* Order Not Found notification.                                           *)
C3_MismatchNotFound ==
  (resolved # NULL /\ ~ResolvedMatches) =>
    /\ trackingResult = NULL
    /\ Last(toasts).title = "Order Not Found"
    /\ "variant" \in DOMAIN Last(toasts)
    /\ Last(toasts).variant = "destructive"

C3_Witness ==
  /\ Len(toasts) >= 2
  /\ toasts[Len(toasts) - 1] = OrderFoundToast
  /\ Last(toasts) = OrderNotFoundToast
  /\ trackingResult = NULL

(* C4: an orderId or an email that differs from a stored one only in       *)
(* letter case, or is only a part of it, resolves to not-found.            *)
C4_ExactMatchOnly ==
  (/\ resolved # NULL
   /\ \/ \E k \in DOMAIN mockOrderStatuses : PartialOf(resolved.orderId, k)
      \/ \E k \in DOMAIN mockOrderStatuses :
           PartialOf(resolved.email, mockOrderStatuses[k].email))
    => /\ trackingResult = NULL
       /\ Last(toasts) = OrderNotFoundToast

C4_Witness ==
  /\ resolved # NULL
  /\ resolved.orderId = "ORD123456"
  /\ resolved.email = "TEST@EXAMPLE.COM"
  /\ trackingResult = NULL

(* C5: in every order record the status of the last tracking-history       *)
(* entry equals the order's current status.                                *)
C5_LastHistoryIsStatus ==
  \A o \in OrderRecords : Last(o.trackingHistory).status = o.status

C5_Witness ==
  /\ trackingResult # NULL
  /\ trackingResult.status = "delivered"
  /\ Last(trackingResult.trackingHistory).status = "delivered"

(* C6: in every order record no tracking-history entry has a status that   *)
(* comes earlier in the lifecycle than the entry before it.                *)
C6_HistoryMonotone ==
  \A o \in OrderRecords :
    \A i \in 1..(Len(o.trackingHistory) - 1) :
      LifecycleRank(o.trackingHistory[i].status)
        <= LifecycleRank(o.trackingHistory[i + 1].status)

C6_Witness ==
  /\ trackingResult # NULL
  /\ Len(trackingResult.trackingHistory) = 3
  /\ trackingResult.trackingHistory[3].status = "in-transit"

(* C7: every order's history starts with the placed status and each later  *)
(* entry is the immediate lifecycle successor of the one before it.        *)
C7_HistoryLinear ==
  \A o \in OrderRecords :
    /\ Len(o.trackingHistory) >= 1
    /\ o.trackingHistory[1].status = Lifecycle[1]
    /\ \A i \in 1..Len(o.trackingHistory) :
         /\ i <= Len(Lifecycle)
         /\ o.trackingHistory[i].status = Lifecycle[i]

C7_Witness ==
  /\ trackingResult # NULL
  /\ Len(trackingResult.trackingHistory) = 4
  /\ trackingResult.trackingHistory[1].status = "order-placed"

(* C8: the lookup of ORD123456 with test@example.com resolves to an order  *)
(* with status in-transit and progress 75.                                 *)
C8_Example123456 ==
  resolved = [orderId |-> "ORD123456", email |-> "test@example.com"] =>
    /\ trackingResult # NULL
    /\ trackingResult.status = "in-transit"
    /\ statusArg = "in-transit"
    /\ progress = 75

C8_Witness ==
  /\ resolved = [orderId |-> "ORD123456", email |-> "test@example.com"]
  /\ progress = 75

(* C9: the lookup of ORD789012 with test@example.com resolves to an order  *)
(* with status delivered and progress 100.                                 *)
C9_Example789012 ==
  resolved = [orderId |-> "ORD789012", email |-> "test@example.com"] =>
    /\ trackingResult # NULL
    /\ trackingResult.status = "delivered"
    /\ statusArg = "delivered"
    /\ progress = 100

C9_Witness ==
  /\ resolved = [orderId |-> "ORD789012", email |-> "test@example.com"]
  /\ progress = 100

(* C10: the lookup of ORD000000 resolves to not-found whatever the email.  *)
C10_ExampleUnknownId ==
  (resolved # NULL /\ resolved.orderId = "ORD000000") =>
    /\ trackingResult = NULL
    /\ progress = NotRendered
    /\ Last(toasts) = OrderNotFoundToast

C10_Witness ==
  /\ resolved = [orderId |-> "ORD000000", email |-> "test@example.com"]
  /\ Last(toasts) = OrderNotFoundToast
  /\ Len(toasts) = 1

(* Form values that pass the schema. *)
LookupValues ==
  {[orderId |-> o, email |-> e] : o \in OrderIdInputs, e \in EmailInputs}

(* C11: a started lookup eventually resolves: once loading is true the     *)
(* callback of the pending timer runs with the submitted values and sets   *)
(* loading back to false; a timer leaves the queue only by running.        *)
C11_LookupResolves ==
  /\ loading ~> ~loading
  /\ \A v \in LookupValues :
       (loading /\ timers = <<v>>) ~> (resolved = v /\ ~loading /\ timers = <<>>)
  /\ [][Len(timers') < Len(timers) =>
         /\ resolved' = Head(timers)
         /\ Len(toasts') = Len(toasts) + 1
         /\ ~loading']_vars

C11_Witness ==
  /\ loading
  /\ Len(timers) = 1
  /\ resolved # NULL
  /\ Len(toasts) = 2

C13_NoRetry ==
  [][/\ (Len(toasts') > Len(toasts) /\ Last(toasts') = OrderNotFoundToast)
          => (~loading' /\ timers' = <<>>)
     /\ Len(timers') >= Len(timers) /\ timers' # timers
          => (~loading /\ timers = <<>> /\ toasts' = toasts /\ resolved' = resolved)
    ]_vars

C13_Witness ==
  /\ Len(toasts) = 2
  /\ toasts[1] = OrderNotFoundToast
  /\ toasts[2] = OrderNotFoundToast
  /\ ~loading
  /\ timers = <<>>

(* The blocks of the card that show where the order is. *)
LocationSections == {"location", "estimatedDelivery", "map"}

(* C14: the card shows the current location, with address and             *)
(* coordinates, and the estimated delivery time exactly when the order on  *)
(* display is in transit.                                                  *)
C14_LocationOnlyInTransit ==
  card # NULL =>
    /\ trackingResult # NULL
    /\ (LocationSections \subseteq card.sections)
         <=> trackingResult.status = "in-transit"
    /\ (LocationSections \cap card.sections # {})
         => trackingResult.status = "in-transit"
    /\ IF trackingResult.status = "in-transit"
       THEN card.location = trackingResult.currentLocation
       ELSE card.location = NULL

C14_Witness ==
  /\ card # NULL
  /\ trackingResult.status = "delivered"
  /\ trackingResult.currentLocation.address = "Koramangala, 5th Block"
  /\ card.location = NULL

(* C15: after a successful lookup of order id X the order number in the    *)
(* header of the card is X.                                                *)
C15_HeaderShowsOwnId ==
  (card # NULL /\ resolved # NULL) => card.orderNumber = resolved.orderId

(* C16: a timer is armed, with loading set, only for an orderId of three   *)
(* or more characters and a valid email; a submit the schema rejects       *)
(* leaves the tracking result, loading, the timers and the toasts as they  *)
(* were.                                                                   *)
C16_ValidateBeforeLookup ==
  [][/\ (Len(timers') >= Len(timers) /\ timers' # timers)
          => /\ Len(Last(timers').orderId) >= 3
             /\ EmailValid(Last(timers').email)
             /\ loading'
     /\ (formErrors' # {} /\ formErrors' # formErrors)
          => UNCHANGED <<trackingResult, loading, timers, toasts>>
    ]_vars

C16_Witness ==
  /\ formErrors = {"orderId", "email"}
  /\ trackingResult # NULL
  /\ ~loading
  /\ Len(toasts) = 1

(* The routes of App wrapped in ProtectedRoute, and their pages. *)
ProtectedPatterns ==
  {<<"dashboard">>, <<"bookings">>, <<"bookings", ":id">>, <<"profile">>,
   <<"vendor", "dashboard">>, <<"vendor", "menus">>, <<"vendor", "orders">>,
   <<"admin", "dashboard">>, <<"admin", "users">>, <<"admin", "vendors">>}

ProtectedPages ==
  {"Dashboard", "Bookings", "BookingDetails", "Profile", "VendorDashboard",
   "VendorMenus", "VendorOrders", "AdminDashboard", "AdminUsers",
   "AdminVendors"}

(* The public routes of App. *)
PublicPatterns == {<<>>, <<"vendors">>, <<"vendors", ":id">>}

OnProtectedRoute ==
  \E pattern \in ProtectedPatterns : MatchesPattern(path, pattern)

(* C17: the page of a protected route is rendered only for a signed-in     *)
(* user; for a signed-out user on a protected route the page is not        *)
(* rendered and the redirect to sign-in is issued.                         *)
C17_ProtectedRoutes ==
  /\ (page \cap ProtectedPages # {}) => auth = "signedIn"
  /\ (OnProtectedRoute /\ auth = "signedIn")
       => (page # {} /\ page \subseteq ProtectedPages)
  /\ (OnProtectedRoute /\ auth = "signedOut")
       => (page = {"RedirectToSignIn"} /\ redirected)

C17_Witness ==
  /\ auth = "signedOut"
  /\ path = <<"admin", "users">>
  /\ page = {"RedirectToSignIn"}
  /\ redirected

(* C18: the public routes render their page whatever the auth state, and   *)
(* a location that matches no declared route renders NotFound whatever     *)
(* the auth state.                                                         *)
C18_PublicAndNotFound ==
  /\ MatchesPattern(path, <<>>) => page = {"HomePage"}
  /\ MatchesPattern(path, <<"vendors">>) => page = {"VendorPage"}
  /\ MatchesPattern(path, <<"vendors", ":id">>) => page = {"VendorDetails"}
  /\ (\A pattern \in PublicPatterns \cup ProtectedPatterns :
        ~MatchesPattern(path, pattern)) => page = {"NotFound"}

C18_Witness ==
  /\ auth = "signedOut"
  /\ path = <<"vendor", "registration">>
  /\ page = {"NotFound"}

(* Number of entries of seq equal to x. *)
Count(seq, x) == Cardinality({i \in 1..Len(seq) : seq[i] = x})

(* C19: at most one logo upload is in flight; handleLogoUpload sets        *)
(* isUploading, no upload starts while it is set, and every started upload *)
(* eventually ends with isUploading false and exactly one Logo Uploaded    *)
(* toast.                                                                  *)
C19_LogoUpload ==
  /\ [](Cardinality(PendingUploads) <= 1)
  /\ [](isUploading => Cardinality(PendingUploads) = 1)
  /\ isUploading ~> ~isUploading
  /\ (PendingUploads # {}) ~> (PendingUploads = {})
  /\ [][/\ Cardinality(PendingUploads') > Cardinality(PendingUploads)
            => (~isUploading /\ isUploading')
        /\ Cardinality(PendingUploads') < Cardinality(PendingUploads)
            => /\ ~isUploading'
               /\ Count(toasts', LogoUploadedToast)
                    = Count(toasts, LogoUploadedToast) + 1
        /\ Count(toasts', LogoUploadedToast) # Count(toasts, LogoUploadedToast)
            => Cardinality(PendingUploads') = Cardinality(PendingUploads) - 1
       ]_vars

C19_Witness ==
  /\ isUploading
  /\ Cardinality(PendingUploads) = 1
  /\ Count(toasts, LogoUploadedToast) = 1

(* C20: every registration that passes the schema emits the Registration   *)
(* Submitted toast and later navigates once to /vendor/dashboard; a        *)
(* registration the schema rejects emits no toast and arms no timer.       *)
C20_RegistrationSubmit ==
  /\ [](navigations + Cardinality(PendingNavigations)
         = Count(toasts, RegistrationSubmittedToast))
  /\ [](\A i \in PendingNavigations :
          VendorSchemaErrors(vendorTimers[i].values) = {})
  /\ [](\A i \in 1..Len(toasts) : toasts[i].title # "Registration Failed")
  /\ (PendingNavigations # {}) ~> (PendingNavigations = {})
  /\ [][/\ navigations' # navigations
            => /\ navigations' = navigations + 1
               /\ path' = <<"vendor", "dashboard">>
               /\ Cardinality(PendingNavigations')
                    = Cardinality(PendingNavigations) - 1
               /\ toasts' = toasts
        /\ (vendorErrors' # {} /\ vendorErrors' # vendorErrors)
            => UNCHANGED <<toasts, vendorTimers, navigations, path>>
       ]_vars

C20_Witness ==
  /\ navigations = 1
  /\ Count(toasts, RegistrationSubmittedToast) = 1
  /\ vendorTimers = <<>>
  /\ path = <<"vendor", "dashboard">>
  /\ page = {"VendorDashboard"}

(* C21: at most one lookup is pending, loading is true exactly while one   *)
(* is pending, no lookup starts while loading is true, and loading does    *)
(* not become false while a timer is outstanding.                          *)
C21_OnePendingLookup ==
  /\ [](Len(timers) <= 1)
  /\ [](loading <=> timers # <<>>)
  /\ [][/\ (Len(timers') >= Len(timers) /\ timers' # timers) => ~loading
        /\ (loading /\ ~loading') => timers' = <<>>
       ]_vars

C21_Witness ==
  /\ loading
  /\ timers = <<[orderId |-> "ORD789012", email |-> "test@example.com"]>>
  /\ Len(toasts) = 1

(* C22: starting a lookup leaves the tracking result and the card as they  *)
(* were; the tracking result changes only in the step in which a lookup    *)
(* resolves.                                                               *)
C22_ResultKeptWhileLoading ==
  [][/\ (Len(timers') >= Len(timers) /\ timers' # timers)
          => (trackingResult' = trackingResult /\ card' = card)
     /\ (trackingResult' # trackingResult \/ card' # card)
          => (Len(timers') < Len(timers) /\ resolved' = Head(timers))
    ]_vars

C22_Witness ==
  /\ loading
  /\ trackingResult = mockOrderStatuses["ORD123456"]
  /\ card # NULL
  /\ card.progress = 75

(* C23: a resolving lookup emits exactly one notification: Order Found     *)
(* exactly when the tracking result becomes a record, the destructive      *)
(* Order Not Found exactly when it becomes null; no other step emits one.  *)
C23_OneToastPerLookup ==
  [][/\ Len(timers') < Len(timers)
          => /\ Len(toasts') = Len(toasts) + 1
             /\ SubSeq(toasts', 1, Len(toasts)) = toasts
             /\ Last(toasts').title = "Order Found" <=> trackingResult' # NULL
             /\ Last(toasts').title = "Order Not Found" <=> trackingResult' = NULL
             /\ ("variant" \in DOMAIN Last(toasts')) <=> trackingResult' = NULL
     /\ toasts' # toasts => Len(timers') < Len(timers)
    ]_vars

C23_Witness ==
  /\ Len(toasts) = 2
  /\ toasts[1].title = "Order Not Found"
  /\ toasts[2].title = "Order Found"
  /\ trackingResult # NULL

(* C24: every order record with status delivered has a delivered entry in  *)
(* its tracking history, so the Delivered on line of the card always has   *)
(* an entry to take its time from.                                         *)
C24_DeliveredHasEntry ==
  /\ \A o \in OrderRecords \cup {orderTable[k] : k \in DOMAIN orderTable} :
       o.status = "delivered"
         => \E i \in 1..Len(o.trackingHistory) :
              o.trackingHistory[i].status = "delivered"
  /\ (card # NULL /\ "deliveredOn" \in card.sections)
       => /\ card.delivered # UNDEFINED
          /\ card.delivered.status = "delivered"

C24_Witness ==
  /\ card # NULL
  /\ "deliveredOn" \in card.sections
  /\ card.delivered.timestamp = "2023-11-14T12:40:00"

(* C25: the k-th milestone indicator is green exactly when the progress of *)
(* the order on display is at least 25*k, a green indicator has no grey    *)
(* one before it, and the first indicator of a displayed order is green.   *)
C25_IndicatorsPrefix ==
  card # NULL =>
    /\ card.progress = getProgressPercentage(trackingResult.status)
    /\ \A k \in 1..4 : card.indicators[k] <=> card.progress >= 25 * k
    /\ \A k \in 2..4 : card.indicators[k] => card.indicators[k - 1]
    /\ card.indicators[1]

C25_Witness ==
  /\ card # NULL
  /\ card.indicators = <<TRUE, TRUE, TRUE, FALSE>>

(* C26: the progress of the status values rises strictly along the         *)
(* lifecycle, so along the history of every order it never falls, and it   *)
(* is 100 for delivered only.                                              *)
C26_ProgressIncreasing ==
  /\ \A i \in 1..Len(Lifecycle), j \in 1..Len(Lifecycle) :
       i < j => getProgressPercentage(Lifecycle[i])
                  < getProgressPercentage(Lifecycle[j])
  /\ \A o \in OrderRecords :
       \A i \in 1..(Len(o.trackingHistory) - 1) :
         getProgressPercentage(o.trackingHistory[i].status)
           <= getProgressPercentage(o.trackingHistory[i + 1].status)
  /\ \A s \in StatusInputs \cup {statusArg} :
       getProgressPercentage(s) = 100 <=> s = "delivered"
  /\ progress = 100 => statusArg = "delivered"

C26_Witness ==
  /\ card # NULL
  /\ card.progress = 100
  /\ Len(card.history) = 4
  /\ getProgressPercentage(card.history[3].status) = 75

====
